---- MODULE Spec2Model ----
(***************************************************************************)
(* Fixture import engine of fixturer.go: ImportFixtures, the concurrent    *)
(* parse phase (pushInsertQueriesFromYmlToChannel), the process-wide cache *)
(* (finishedParsedDirs, finishedTablseNames, insertMap) and the loader     *)
(* (loadParsedData), over a small file system and a small database.        *)
(***************************************************************************)
EXTENDS Integers, Sequences, FiniteSets, TLC

(***************************************************************************)
(* Bounds of the model.                                                    *)
(***************************************************************************)
MaxCalls == 3      \* ImportFixtures calls in one process
MaxEdits == 1      \* edits of fixture files on disk
MaxFaults == 1     \* failures injected by the file system and the database
InitialRows == 1   \* rows every table holds when the process starts
MaxCnt == 2        \* largest argument of SetInsertGoroutinesCnt
MaxSchemaLen == 3  \* characters of the schema file
MaxSpare == 1      \* capacity of a directory listing beyond its length

\* const InsertGoroutinesDefaultCnt
InsertGoroutinesDefaultCnt == 20

(***************************************************************************)
(* The file system.  A file name is <<stem, extension>>; a directory entry *)
(* is a name and the IsDir flag.  A fixture file is readable or not; its   *)
(* bytes are a YAML document: syntactically valid or not, and a sequence   *)
(* of items, each a mapping (key/value pairs in textual order) or a        *)
(* scalar (which does not fit map[string]interface{}).                     *)
(***************************************************************************)
Dirs == {"A", "B"}

Name(stem, ext) == <<stem, ext>>
Entry(stem, ext, isDir) == [name |-> Name(stem, ext), isDir |-> isDir]

\* a mutex nobody holds
Unlocked == Name("", "")

UsersYml == Name("users", ".yml")
PostsYml == Name("posts", ".yml")

\* a directory without any fixture file
EmptyDir == "E"

\* a directory without any entry
BareDir == "N"

\* ioutil.ReadDir returns the entries sorted by file name.
ReadDir(d) ==
    IF d = "A"
    THEN << Entry("notes", ".txt", FALSE), Entry("posts", ".yml", FALSE),
            Entry("users", ".yml", FALSE) >>
    ELSE IF d = "B"
    THEN << Entry("old", ".yml", TRUE), Entry("users", ".yml", FALSE) >>
    ELSE IF d = EmptyDir
    THEN << Entry("readme", ".txt", FALSE), Entry("sub", ".yml", TRUE) >>
    ELSE << >>

Mapping(pairs) == [kind |-> "map", pairs |-> pairs]
Scalar == [kind |-> "scalar", pairs |-> << >>]
Doc(syntaxOk, items) == [syntaxOk |-> syntaxOk, items |-> items]
File(readable, bytes) == [readable |-> readable, bytes |-> bytes]

\* users.yml of the concrete scenario: {id:1,name:"a"}, {id:2,name:"a",note:"x"}
TwoRecords ==
    File(TRUE, Doc(TRUE,
        << Mapping(<< <<"id", "1">>, <<"name", "a">> >>),
           Mapping(<< <<"id", "2">>, <<"name", "a">>, <<"note", "x">> >>) >>))
\* a record that omits a field of its sibling, the wider record first
WideFirst ==
    File(TRUE, Doc(TRUE,
        << Mapping(<< <<"note", "x">>, <<"id", "1">> >>),
           Mapping(<< <<"id", "2">> >>) >>))
OneRecord == File(TRUE, Doc(TRUE, << Mapping(<< <<"id", "7">> >>) >>))
SyntaxError == File(TRUE, Doc(FALSE, << >>))
\* a valid document one item of which is not a mapping
TypeError == File(TRUE, Doc(TRUE, << Mapping(<< <<"id", "1">> >>), Scalar >>))
Unreadable == File(FALSE, Doc(TRUE, << >>))

\* the contents an edit may give to each fixture file
Contents(d, f) ==
    IF f = PostsYml THEN {OneRecord, SyntaxError}
    ELSE IF d = "A" THEN {TwoRecords, TypeError}
    ELSE {WideFirst, Unreadable}

DiskFiles == {<<"A", PostsYml>>, <<"A", UsersYml>>, <<"B", UsersYml>>}

Disk(posts, usersA, usersB) ==
    [x \in DiskFiles |-> IF x[1] = "B" THEN usersB
                         ELSE IF x[2] = PostsYml THEN posts ELSE usersA]

InitialDisks ==
    { Disk(OneRecord, TwoRecords, WideFirst),
      Disk(SyntaxError, TwoRecords, Unreadable),
      Disk(OneRecord, TypeError, WideFirst) }

Absent == "<absent>"
NoError == "nil"


(***************************************************************************)
(* Pure functions of the parse task.                                       *)
(***************************************************************************)
HasSuffix(name, suffix) == name[2] = suffix
TrimSuffix(name, suffix) == IF HasSuffix(name, suffix) THEN Name(name[1], "") ELSE name

\* getYmlFilesList: the entries that are not directories and end in .yml
RECURSIVE FilterYml(_)
FilterYml(entries) ==
    IF entries = << >> THEN << >>
    ELSE LET file == Head(entries) IN
         IF file.isDir \/ ~HasSuffix(file.name, ".yml")
         THEN FilterYml(Tail(entries))
         ELSE << file >> \o FilterYml(Tail(entries))

\* y, _ := ioutil.ReadFile(...): the error is dropped, y is nil on failure
ReadFile(file) == IF file.readable THEN file.bytes ELSE Doc(TRUE, << >>)

\* a YAML mapping decoded into map[string]interface{}: the order of the
\* keys is lost, the last value of a repeated key wins
ToMap(item) ==
    LET keys == {item.pairs[i][1] : i \in DOMAIN item.pairs}
        Last(k) == CHOOSE i \in DOMAIN item.pairs :
                       /\ item.pairs[i][1] = k
                       /\ \A j \in DOMAIN item.pairs : item.pairs[j][1] = k => j <= i
    IN  [k \in keys |-> item.pairs[Last(k)][2]]

IsMapping(item) == item.kind = "map"

\* yaml.Unmarshal(y, &data) into []map[string]interface{}: a syntax error
\* decodes nothing; an item of the wrong type is left out, the others are
\* decoded, and a type error is returned
Unmarshal(y) ==
    IF ~y.syntaxOk THEN [data |-> << >>, err |-> TRUE]
    ELSE LET good == SelectSeq(y.items, IsMapping) IN
         [data |-> [i \in 1..Len(good) |-> ToMap(good[i])],
          err |-> Len(good) # Len(y.items)]

\* allKeysMap filled from the first item only
AllKeysMap_firstItem(data) == IF data = << >> THEN {} ELSE DOMAIN data[1]

\* allKeysMap: the set of the keys of all items
AllKeysMap(data) == UNION {DOMAIN data[i] : i \in DOMAIN data}

\* an iteration that yields one key twice and misses another
AllKeysOrders_repeat(keysMap) == [1..Cardinality(keysMap) -> keysMap]

\* for k := range allKeysMap: the keys in any order
AllKeysOrders(keysMap) ==
    {s \in [1..Cardinality(keysMap) -> keysMap] :
        \A i, j \in DOMAIN s : i # j => s[i] # s[j]}

\* squirrel.Insert(tableName).Columns(allKeys...)
InsertColumns(tableName, allKeys) ==
    [table |-> tableName, columns |-> allKeys, rows |-> << >>]

\* qb.AddMap(item): one row, aligned to the columns
AddMap(qb, item) ==
    [qb EXCEPT !.rows = Append(@,
        [i \in 1..Len(qb.columns) |->
            IF qb.columns[i] \in DOMAIN item THEN item[qb.columns[i]] ELSE Absent])]

RECURSIVE AddMaps(_, _)
AddMaps(qb, data) ==
    IF data = << >> THEN qb ELSE AddMaps(AddMap(qb, Head(data)), Tail(data))

\* query.ToSql(): an insert without rows cannot be built
ToSqlFails(query) == query.rows = << >>

(***************************************************************************)
(* State.                                                                  *)
(***************************************************************************)
VARIABLES
    disk,                 \* <<dir, name>> -> file
    tables,               \* database: table -> committed row count
    finishedTablseNames,  \* process-wide: table names of the last parse
    finishedParsedDirs,   \* process-wide: directories already parsed
    insertMap,            \* process-wide: file name -> insert builder
    pc,                   \* position of the ImportFixtures call
    fixturesPathYml,      \* this.fixturesPathYml
    db,                   \* this.db # nil
    files,                \* result of getYmlFilesList
    cacheHit,             \* importYmlFixtures took the finishedParsedDirs branch
    wg,                   \* sync.WaitGroup counter
    tablesNames,          \* local of pushInsertQueriesFromYmlToChannel
    mutex,                \* its mutex: Unlocked or the name of the holder
    task,                 \* name -> goroutine: pc and locals y, err, data, qb
    tableIdx,             \* loadParsedData: next index in finishedTablseNames
    pending,              \* loadParsedData: keys of insertMap not yet ranged over
    fkDeferred,           \* defer SET FOREIGN_KEY_CHECKS=1 is registered
    tx,                   \* "none", "open", "committed", "failed", "rolledback"
    txRows,               \* rows inserted in the open transaction, per table
    loadErr,              \* value returned by loadParsedData
    ret,                  \* value returned by ImportFixtures
    calls, edits, faults, \* counters of the bounds
    listings, reads,      \* history: ReadDir and ReadFile calls of this call
    truncated, inserted,  \* history: tables truncated, builders executed by this load
    stmts,                \* history: statements sent to the database by this call
    preTables,            \* history: tables when this call started
    firstInserted,        \* history: dir -> builders executed by its first import
    firstTables,          \* history: dir -> tables after its first import
                          \* (both defined once the first import has returned)
    insertGoroutinesCnt,  \* this.insertGoroutinesCnt
    maxOpenConns,         \* size given to the pool by db.SetMaxOpenConns
    panicked,             \* the process has panicked
    conns,                \* sql.DB handles connected and not closed
    recreateDatabase,     \* this.recreateDatabase
    outer,                \* position of RecreateDatabaseWithSchemaAndImportFixtures
    ran,                  \* history: the operations it has called
    compositeRet,         \* value it returned
    recreateRet,          \* value returned by RecreateDatabase
    lastOp,               \* history: the last public operation called
    schemaFile,           \* characters of the file this.schema
    spc,                  \* position of the LoadDbSchema call
    queries,              \* LoadDbSchema: pieces of the file not yet looked at
    executed,             \* statements executed in its open transaction
    schemaTx,             \* its transaction: "none", "open", "committed", ...
    applied,              \* database: statements of committed transactions
    schemaStmts,          \* history: statements sent by this LoadDbSchema call
    schemaRet,            \* value returned by LoadDbSchema
    rdir,                 \* concurrent callers: fixturesPathYml of each Fixturer
    rpc,                  \* position of each caller in importYmlFixtures
    rtask,                \* position of each goroutine of each caller
    rtablesNames,         \* tablesNames of each caller
    rwg,                  \* wg of each caller
    held,                 \* holder of each sync.Mutex
    fatal,                \* the runtime has stopped the process
    filesCount,           \* getInsertQueriesFromYml: cap(files)
    ended,                \* its counter i of the values received from chEnd
    insertQueries,        \* the statements it has received from chData
    collector,            \* its position
    sender                \* its goroutines: position and items left to send

vars == << disk, tables, finishedTablseNames, finishedParsedDirs, insertMap,
           pc, fixturesPathYml, db, files, cacheHit, wg, tablesNames, mutex,
           task, tableIdx, pending, fkDeferred, tx, txRows, loadErr, ret,
           calls, edits, faults, listings, reads, truncated, inserted, stmts,
           preTables, firstInserted, firstTables,
           insertGoroutinesCnt, maxOpenConns, panicked, conns, recreateDatabase,
           outer, ran, compositeRet, recreateRet, lastOp,
           schemaFile, spc, queries, executed, schemaTx, applied, schemaStmts,
           schemaRet, rdir, rpc, rtask, rtablesNames, rwg, held, fatal,
           filesCount, ended, insertQueries, collector, sender >>

OpsVars == << insertGoroutinesCnt, maxOpenConns, panicked, conns, recreateDatabase,
              outer, ran, compositeRet, recreateRet, lastOp >>
SchemaVars == << schemaFile, spc, queries, executed, schemaTx, applied,
                 schemaStmts, schemaRet >>
RaceVars == << rdir, rpc, rtask, rtablesNames, rwg, held, fatal >>
ChanVars == << filesCount, ended, insertQueries, collector, sender >>

\* two goroutines of the test, each calling ImportFixtures on a Fixturer
\* of its own; the mutexes their calls create
Callers == {1, 2}
ImportMutex(c) == <<"importYmlFixtures", c>>
PushMutex(c) == <<"pushInsertQueriesFromYmlToChannel", c>>
Mutexes == {ImportMutex(c) : c \in Callers} \cup {PushMutex(c) : c \in Callers}
Free == <<"free", 0>>

YmlNames == {UsersYml, PostsYml}
Tables == {TrimSuffix(f, ".yml") : f \in YmlNames}

\* readErr is history: the error of ReadFile, which the code drops
NoTask == [pc |-> "none", readErr |-> FALSE, y |-> Doc(TRUE, << >>), err |-> FALSE,
           data |-> << >>, qb |-> InsertColumns(Name("", ""), << >>)]
NoRows == [t \in Tables |-> 0]

NoOp == [op |-> "none", arg |-> 0]

\* positions of RecreateDatabaseWithSchemaAndImportFixtures: not running,
\* about to call an operation, waiting for its return
NotRunning == <<"none", "">>
Calls(op) == <<"call", op>>
In(op) == <<"in", op>>

\* the state of a new Fixturer in a new process, but for the disk, the
\* schema file and the recreateDatabase flag
InitRest ==
    /\ tables = [t \in Tables |-> InitialRows]
    /\ finishedTablseNames = << >>
    /\ finishedParsedDirs = {}
    /\ insertMap = << >>
    /\ pc = "idle"
    /\ fixturesPathYml = "A"
    /\ db = FALSE
    /\ files = << >>
    /\ cacheHit = FALSE
    /\ wg = 0
    /\ tablesNames = << >>
    /\ mutex = Unlocked
    /\ task = [f \in YmlNames |-> NoTask]
    /\ tableIdx = 1
    /\ pending = {}
    /\ fkDeferred = FALSE
    /\ tx = "none"
    /\ txRows = NoRows
    /\ loadErr = NoError
    /\ ret = NoError
    /\ calls = 0 /\ edits = 0 /\ faults = 0
    /\ listings = 0 /\ reads = 0
    /\ truncated = {} /\ inserted = {}
    /\ stmts = << >>
    /\ preTables = tables
    /\ firstInserted = << >>
    /\ firstTables = << >>
    /\ insertGoroutinesCnt = InsertGoroutinesDefaultCnt
    /\ maxOpenConns = 0
    /\ panicked = FALSE
    /\ conns = 0
    /\ outer = NotRunning
    /\ ran = << >>
    /\ compositeRet = NoError
    /\ recreateRet = NoError
    /\ lastOp = NoOp
    /\ spc = "idle"
    /\ queries = << >>
    /\ executed = << >>
    /\ schemaTx = "none"
    /\ applied = << >>
    /\ schemaStmts = << >>
    /\ schemaRet = NoError
    /\ rpc = [c \in Callers |-> "idle"]
    /\ rtask = [c \in Callers |-> [f \in YmlNames |-> "none"]]
    /\ rtablesNames = [c \in Callers |-> << >>]
    /\ rwg = [c \in Callers |-> 0]
    /\ held = [m \in Mutexes |-> Free]
    /\ fatal = FALSE
    /\ filesCount = 0
    /\ ended = 0
    /\ insertQueries = << >>
    /\ collector = "idle"
    /\ sender = << >>

Init ==
    /\ rdir = [c \in Callers |-> "A"]
    /\ disk \in InitialDisks
    /\ schemaFile = << "a" >>
    /\ recreateDatabase = TRUE
    /\ InitRest


(***************************************************************************)
(* Helpers of the actions.                                                 *)
(***************************************************************************)
\* a call of the file system or the database succeeds or, within the
\* bound, fails
Outcome(ok) ==
    /\ ok \/ faults < MaxFaults
    /\ faults' = IF ok THEN faults ELSE faults + 1

Put(map, key, value) ==
    [k \in DOMAIN map \cup {key} |-> IF k = key THEN value ELSE map[k]]

\* history of the statements executed on the database
Sent(op) == stmts' = Append(stmts, op)

\* ensureDbConnected: nothing when this.db is set; else sql.Open, the size
\* of the pool and Ping (a handle whose Ping fails is dropped, it holds
\* no connection)
Connect(ok) ==
    IF db
    THEN ok /\ UNCHANGED << faults, db, conns, maxOpenConns >>
    ELSE /\ Outcome(ok)
         /\ maxOpenConns' = insertGoroutinesCnt
         /\ db' = ok
         /\ conns' = IF ok THEN conns + 1 ELSE conns

\* a public operation is called by the test, or by
\* RecreateDatabaseWithSchemaAndImportFixtures when it is its turn
CalledAs(op) ==
    /\ ~panicked
    /\ outer \in {NotRunning, Calls(op)}
    /\ lastOp' = [op |-> op, arg |-> 0]
    /\ outer' = IF outer = NotRunning THEN outer ELSE In(op)
    /\ ran' = IF outer = NotRunning THEN ran ELSE Append(ran, op)

FileNames(list) == {list[i].name : i \in DOMAIN list}

\* getYmlFilesList(path)
GetYmlFilesList(path) == FilterYml(ReadDir(path))

\* a counter one above the number of goroutines
WgAdd_oneMore(list) == Len(list) + 1

\* wg.Add(len(files))
WgAdd(list) == Len(list)

\* wg.Wait() that returns with one goroutine still running
WgWaitReturns_early(counter) == counter <= 1

\* wg.Wait() returns when the counter is zero
WgWaitReturns(counter) == counter = 0

\* finishedTablseNames = tablesNames
RecordTablesNames(old, new) == new

\* insertMap left alone for a file without rows
StoreBatch_skipEmpty(map, filename, qb) ==
    IF qb.rows = << >> THEN map ELSE Put(map, filename, qb)

\* insertMap keyed by the table of the last goroutine instead of the file
StoreBatch_oneKey(map, filename, qb) == Put(map, UsersYml, qb)

\* insertMap[filename] = qb
StoreBatch(map, filename, qb) == Put(map, filename, qb)

\* getYmlFilesList's error taken for success
ListingFailed_ignored(ok) == FALSE

\* files, err := this.getYmlFilesList(...); if err != nil
ListingFailed(ok) == ~ok

\* the insert loop left on the first error
AfterInsert_abort(failed) == IF failed THEN "defers" ELSE "insert"

\* after ToSql and tx.Exec, failed or not, the loop goes on
AfterInsert(failed) == "insert"

\* what importYmlFixtures returns after loadParsedData returned err:
\* the cached branch drops it (return nil), the other returns it
ImportYmlFixturesResult(hit, err) == IF hit THEN NoError ELSE err

LoadUnchanged ==
    UNCHANGED << tableIdx, pending, fkDeferred, tx, txRows, loadErr,
                 truncated, inserted, stmts >>
PushUnchanged == UNCHANGED << wg, tablesNames, mutex, task >>
CacheUnchanged ==
    UNCHANGED << finishedTablseNames, finishedParsedDirs, insertMap >>
HistoryUnchanged ==
    UNCHANGED << calls, edits, listings, reads, preTables, firstInserted, firstTables >>

(***************************************************************************)
(* ImportFixtures up to the parse phase.                                   *)
(***************************************************************************)
\* ImportFixtures on a Fixturer of directory d: getYmlFilesList
ImportFixtures(d, ok) ==
    /\ pc = "idle" /\ spc = "idle"
    /\ CalledAs("ImportFixtures")
    /\ calls < MaxCalls
    /\ Outcome(ok)
    /\ calls' = calls + 1
    /\ fixturesPathYml' = d
    /\ listings' = 1
    /\ reads' = 0
    /\ preTables' = tables
    /\ cacheHit' = FALSE
    /\ loadErr' = NoError
    /\ truncated' = {} /\ inserted' = {} /\ stmts' = << >>
    /\ task' = [f \in YmlNames |-> NoTask]
    /\ tablesNames' = << >>
    /\ IF ~ListingFailed(ok)
       THEN /\ files' = GetYmlFilesList(d)
            /\ pc' = "connect"
            /\ ret' = "running"
       ELSE /\ files' = << >>
            /\ pc' = "idle"
            /\ ret' = "io error"
    /\ CacheUnchanged
    /\ UNCHANGED << disk, tables, db, wg, mutex, tableIdx, pending, fkDeferred,
                    tx, txRows, edits, firstInserted, firstTables >>
    /\ UNCHANGED << insertGoroutinesCnt, maxOpenConns, panicked, conns,
                    recreateDatabase, compositeRet, recreateRet, SchemaVars, RaceVars, ChanVars >>

\* ImportFixtures: the call of ensureDbConnected
EnsureDbConnected(ok) ==
    /\ pc = "connect"
    /\ Connect(ok)
    /\ IF ok
       THEN pc' = "import" /\ ret' = ret
       ELSE pc' = "idle" /\ ret' = "connect error"
    /\ UNCHANGED << insertGoroutinesCnt, panicked, recreateDatabase, outer, ran,
                    compositeRet, recreateRet, lastOp, SchemaVars, RaceVars, ChanVars >>
    /\ CacheUnchanged /\ LoadUnchanged /\ PushUnchanged /\ HistoryUnchanged
    /\ UNCHANGED << disk, tables, fixturesPathYml, files, cacheHit >>

\* importYmlFixtures: the finishedParsedDirs test (its mutex is a fresh
\* local of the call and excludes nothing)
ImportYmlFixtures ==
    /\ pc = "import"
    /\ cacheHit' = (fixturesPathYml \in finishedParsedDirs)
    /\ pc' = IF cacheHit' THEN "fk" ELSE "push"
    /\ CacheUnchanged /\ LoadUnchanged /\ PushUnchanged /\ HistoryUnchanged
    /\ UNCHANGED << disk, tables, fixturesPathYml, db, files, ret, faults >>
    /\ UNCHANGED << OpsVars, SchemaVars, RaceVars, ChanVars >>

\* pushInsertQueriesFromYmlToChannel: wg.Add and one goroutine per file
Push ==
    /\ pc = "push"
    /\ wg' = WgAdd(files)
    /\ tablesNames' = << >>
    /\ mutex' = Unlocked
    /\ task' = [f \in YmlNames |->
                  IF f \in FileNames(files) THEN [NoTask EXCEPT !.pc = "start"]
                  ELSE NoTask]
    /\ pc' = "wait"
    /\ CacheUnchanged /\ LoadUnchanged /\ HistoryUnchanged
    /\ UNCHANGED << disk, tables, fixturesPathYml, db, files, cacheHit, ret, faults >>
    /\ UNCHANGED << OpsVars, SchemaVars, RaceVars, ChanVars >>

(***************************************************************************)
(* The goroutine of file f.                                                *)
(***************************************************************************)
TaskFrame ==
    /\ LoadUnchanged
    /\ UNCHANGED << OpsVars, SchemaVars, RaceVars, ChanVars >>
    /\ UNCHANGED << disk, tables, finishedTablseNames, finishedParsedDirs, pc,
                    fixturesPathYml, db, files, cacheHit, ret, faults, calls,
                    edits, listings, preTables, firstInserted, firstTables >>

\* the suffix test, ReadFile and yaml.Unmarshal
TaskRead(f) ==
    /\ task[f].pc = "start"
    /\ IF ~HasSuffix(f, ".yml")
       THEN /\ task' = [task EXCEPT ![f].pc = "defer"]
            /\ reads' = reads
       ELSE LET y == ReadFile(disk[<<fixturesPathYml, f>>])
                decoded == Unmarshal(y)
            IN  /\ task' = [task EXCEPT ![f] =
                       [@ EXCEPT !.pc = "lock1", !.y = y, !.err = decoded.err,
                                 !.data = decoded.data,
                                 !.readErr = ~disk[<<fixturesPathYml, f>>].readable]]
                /\ reads' = reads + 1
    /\ TaskFrame
    /\ UNCHANGED << insertMap, wg, tablesNames, mutex >>

\* mutex.Lock(), before the append and before the store
TaskLock(f) ==
    /\ task[f].pc \in {"lock1", "lock2"}
    /\ mutex = Unlocked
    /\ mutex' = f
    /\ task' = [task EXCEPT ![f].pc = IF @ = "lock1" THEN "append" ELSE "store"]
    /\ TaskFrame
    /\ UNCHANGED << insertMap, wg, tablesNames, reads >>

\* tablesNames = append(tablesNames, tableName); mutex.Unlock()
TaskAppend(f) ==
    /\ task[f].pc = "append"
    /\ tablesNames' = Append(tablesNames, TrimSuffix(f, ".yml"))
    /\ mutex' = Unlocked
    /\ task' = [task EXCEPT ![f].pc = "build"]
    /\ TaskFrame
    /\ UNCHANGED << insertMap, wg, reads >>

\* allKeysMap, allKeys, the insert builder and one AddMap per item
TaskBuild(f) ==
    /\ task[f].pc = "build"
    /\ \E allKeys \in AllKeysOrders(AllKeysMap(task[f].data)) :
          task' = [task EXCEPT ![f] =
             [@ EXCEPT !.pc = "lock2",
                       !.qb = AddMaps(InsertColumns(TrimSuffix(f, ".yml"), allKeys),
                                      task[f].data)]]
    /\ TaskFrame
    /\ UNCHANGED << insertMap, wg, tablesNames, mutex, reads >>

\* insertMap[filename] = qb; mutex.Unlock()
TaskStore(f) ==
    /\ task[f].pc = "store"
    /\ insertMap' = StoreBatch(insertMap, f, task[f].qb)
    /\ mutex' = Unlocked
    /\ task' = [task EXCEPT ![f].pc = "defer"]
    /\ TaskFrame
    /\ UNCHANGED << wg, tablesNames, reads >>

\* defer wg.Done()
TaskDone(f) ==
    /\ task[f].pc = "defer"
    /\ wg' = wg - 1
    /\ task' = [task EXCEPT ![f].pc = "done"]
    /\ TaskFrame
    /\ UNCHANGED << insertMap, tablesNames, mutex, reads >>


(***************************************************************************)
(* The end of the parse phase.                                             *)
(***************************************************************************)
ParseFrame ==
    /\ LoadUnchanged /\ HistoryUnchanged
    /\ UNCHANGED << OpsVars, SchemaVars, RaceVars, ChanVars >>
    /\ UNCHANGED << disk, tables, insertMap, fixturesPathYml, db, files, cacheHit,
                    ret, faults, wg, tablesNames, task >>

\* wg.Wait()
PushWait ==
    /\ pc = "wait"
    /\ WgWaitReturns(wg)
    /\ pc' = "record"
    /\ ParseFrame
    /\ UNCHANGED << finishedTablseNames, finishedParsedDirs, mutex >>

\* mutex.Lock(); finishedTablseNames = tablesNames; mutex.Unlock(); return
PushRecord ==
    /\ pc = "record"
    /\ mutex = Unlocked
    /\ finishedTablseNames' = RecordTablesNames(finishedTablseNames, tablesNames)
    /\ pc' = "mark"
    /\ ParseFrame
    /\ UNCHANGED << finishedParsedDirs, mutex >>

\* finishedParsedDirs[this.fixturesPathYml] = struct{}{}
MarkDir ==
    /\ pc = "mark"
    /\ finishedParsedDirs' = finishedParsedDirs \cup {fixturesPathYml}
    /\ pc' = "fk"
    /\ ParseFrame
    /\ UNCHANGED << finishedTablseNames, mutex >>

(***************************************************************************)
(* loadParsedData.                                                         *)
(***************************************************************************)
LoadFrame ==
    /\ CacheUnchanged /\ PushUnchanged /\ HistoryUnchanged
    /\ UNCHANGED << OpsVars, SchemaVars, RaceVars, ChanVars >>
    /\ UNCHANGED << disk, fixturesPathYml, db, files, cacheHit, ret >>

\* this.db.Exec("SET FOREIGN_KEY_CHECKS=0"); on success the defer of
\* SET FOREIGN_KEY_CHECKS=1 is registered
LoadFkDisable(ok) ==
    /\ pc = "fk"
    /\ Outcome(ok)
    /\ Sent("FK0")
    /\ tableIdx' = 1
    /\ pending' = {}
    /\ truncated' = {} /\ inserted' = {}
    /\ tx' = "none" /\ txRows' = NoRows
    /\ fkDeferred' = ok
    /\ loadErr' = IF ok THEN NoError ELSE "fk error"
    /\ pc' = IF ok THEN "truncate" ELSE "return"
    /\ LoadFrame
    /\ UNCHANGED tables

\* this.db.Exec("TRUNCATE " + tableName) for the next name of
\* finishedTablseNames: on the handle, outside any transaction
LoadTruncate(ok) ==
    /\ pc = "truncate"
    /\ tableIdx <= Len(finishedTablseNames)
    /\ Outcome(ok)
    /\ LET tableName == finishedTablseNames[tableIdx] IN
       /\ Sent("TRUNCATE")
       /\ IF ok
          THEN /\ tables' = [tables EXCEPT ![tableName] = 0]
               /\ truncated' = truncated \cup {tableName}
               /\ tableIdx' = tableIdx + 1
               /\ UNCHANGED << loadErr, pc >>
          ELSE /\ loadErr' = "truncate error"
               /\ pc' = "defers"
               /\ UNCHANGED << tables, truncated, tableIdx >>
    /\ LoadFrame
    /\ UNCHANGED << pending, fkDeferred, tx, txRows, inserted >>

\* tx, err := this.db.Begin(); defer tx.Rollback()
LoadBegin(ok) ==
    /\ pc = "truncate"
    /\ tableIdx > Len(finishedTablseNames)
    /\ Outcome(ok)
    /\ Sent("BEGIN")
    /\ IF ok
       THEN /\ tx' = "open"
            /\ pending' = DOMAIN insertMap
            /\ pc' = "insert"
            /\ UNCHANGED loadErr
       ELSE /\ loadErr' = "begin error"
            /\ pc' = "defers"
            /\ UNCHANGED << tx, pending >>
    /\ LoadFrame
    /\ UNCHANGED << tables, tableIdx, fkDeferred, txRows, truncated, inserted >>

\* one iteration of for _, query := range insertMap: ToSql and tx.Exec,
\* whose errors are printed and dropped
LoadInsert(f, ok) ==
    /\ pc = "insert"
    /\ f \in pending
    /\ LET query == insertMap[f] IN
       /\ IF ToSqlFails(query) THEN ok /\ UNCHANGED faults ELSE Outcome(ok)
       /\ Sent("INSERT")
       /\ inserted' = inserted \cup {query}
       /\ txRows' = IF ok /\ ~ToSqlFails(query)
                    THEN [txRows EXCEPT ![query.table] = @ + Len(query.rows)]
                    ELSE txRows
       /\ pc' = AfterInsert(~ok \/ ToSqlFails(query))
    /\ pending' = pending \ {f}
    /\ LoadFrame
    /\ UNCHANGED << tables, tableIdx, fkDeferred, tx, loadErr, truncated >>

\* tx.Commit()
LoadCommit(ok) ==
    /\ pc = "insert"
    /\ pending = {}
    /\ Outcome(ok)
    /\ Sent("COMMIT")
    /\ IF ok
       THEN /\ tables' = [t \in Tables |-> tables[t] + txRows[t]]
            /\ tx' = "committed"
            /\ UNCHANGED loadErr
       ELSE /\ tx' = "failed"
            /\ loadErr' = "commit error"
            /\ UNCHANGED tables
    /\ pc' = "defers"
    /\ LoadFrame
    /\ UNCHANGED << tableIdx, pending, fkDeferred, txRows, truncated, inserted >>

\* the deferred calls, last registered first: tx.Rollback() when the
\* transaction was begun, then SET FOREIGN_KEY_CHECKS=1
LoadDefers ==
    /\ pc = "defers"
    /\ tx' = IF tx = "open" THEN "rolledback" ELSE tx
    /\ txRows' = NoRows
    /\ IF fkDeferred THEN Sent("FK1") ELSE UNCHANGED stmts
    /\ pc' = "return"
    /\ LoadFrame
    /\ UNCHANGED << tables, tableIdx, pending, fkDeferred, loadErr, truncated,
                    inserted, faults >>

(***************************************************************************)
(* The return of importYmlFixtures and ImportFixtures, with the deferred   *)
(* ensureDbDisconnected.                                                   *)
(***************************************************************************)
FirstImport == ~cacheHit /\ fixturesPathYml \notin DOMAIN firstInserted

ImportReturn ==
    /\ pc = "return"
    /\ ret' = ImportYmlFixturesResult(cacheHit, loadErr)
    /\ db' = FALSE
    /\ conns' = conns - 1
    /\ UNCHANGED << insertGoroutinesCnt, maxOpenConns, panicked, recreateDatabase,
                    outer, ran, compositeRet, recreateRet, lastOp, SchemaVars, RaceVars, ChanVars >>
    /\ pc' = "idle"
    /\ firstInserted' = IF FirstImport THEN Put(firstInserted, fixturesPathYml, inserted)
                        ELSE firstInserted
    /\ firstTables' = IF FirstImport THEN Put(firstTables, fixturesPathYml, tables)
                      ELSE firstTables
    /\ CacheUnchanged /\ LoadUnchanged /\ PushUnchanged
    /\ UNCHANGED << disk, tables, fixturesPathYml, files, cacheHit, faults, calls,
                    edits, listings, reads, preTables >>

(***************************************************************************)
(* The environment: a fixture file is edited on disk between two calls.    *)
(* A file is read once per process, by the parse of its directory; the     *)
(* contents it has then are chosen by Init, the edits come after.          *)
(***************************************************************************)
EditFile(x, content) ==
    /\ pc = "idle" /\ spc = "idle" /\ outer = NotRunning
    /\ edits < MaxEdits
    /\ x[1] \in finishedParsedDirs
    /\ content # disk[x]
    /\ disk' = [disk EXCEPT ![x] = content]
    /\ edits' = edits + 1
    /\ CacheUnchanged /\ LoadUnchanged /\ PushUnchanged
    /\ UNCHANGED << tables, pc, fixturesPathYml, db, files, cacheHit, ret, faults,
                    calls, listings, reads, preTables, firstInserted, firstTables >>
    /\ UNCHANGED << OpsVars, SchemaVars, RaceVars, ChanVars >>

Next ==
    \/ \E d \in Dirs, ok \in BOOLEAN : ImportFixtures(d, ok)
    \/ \E ok \in BOOLEAN : EnsureDbConnected(ok)
    \/ ImportYmlFixtures
    \/ Push
    \/ \E f \in YmlNames : TaskRead(f)
    \/ \E f \in YmlNames : TaskLock(f)
    \/ \E f \in YmlNames : TaskAppend(f)
    \/ \E f \in YmlNames : TaskBuild(f)
    \/ \E f \in YmlNames : TaskStore(f)
    \/ \E f \in YmlNames : TaskDone(f)
    \/ PushWait
    \/ PushRecord
    \/ MarkDir
    \/ \E ok \in BOOLEAN : LoadFkDisable(ok)
    \/ \E ok \in BOOLEAN : LoadTruncate(ok)
    \/ \E ok \in BOOLEAN : LoadBegin(ok)
    \/ \E f \in YmlNames, ok \in BOOLEAN : LoadInsert(f, ok)
    \/ \E ok \in BOOLEAN : LoadCommit(ok)
    \/ LoadDefers
    \/ ImportReturn
    \/ \E x \in DiskFiles : \E content \in Contents(x[1], x[2]) : EditFile(x, content)

Spec == Init /\ [][Next]_vars

(***************************************************************************)
(* The other public operations of a Fixturer.                              *)
(***************************************************************************)
\* no step of an ImportFixtures call
NoImportStep ==
    /\ CacheUnchanged /\ LoadUnchanged /\ PushUnchanged
    /\ UNCHANGED << disk, pc, fixturesPathYml, files, cacheHit, ret, edits,
                    listings, reads, preTables, firstInserted, firstTables >>

\* SetInsertGoroutinesCnt: the test of its argument, as accepted by a
\* build that lets zero through
CntRejected_belowZero(cnt) == cnt < 0

\* SetInsertGoroutinesCnt: the test of its argument
CntRejected(cnt) == cnt < 1

SetInsertGoroutinesCnt(cnt) ==
    /\ pc = "idle" /\ spc = "idle" /\ outer = NotRunning /\ ~panicked
    /\ calls < MaxCalls
    /\ calls' = calls + 1
    /\ lastOp' = [op |-> "SetInsertGoroutinesCnt", arg |-> cnt]
    /\ IF CntRejected(cnt)
       THEN panicked' = TRUE /\ UNCHANGED insertGoroutinesCnt
       ELSE insertGoroutinesCnt' = cnt /\ UNCHANGED panicked
    /\ NoImportStep
    /\ UNCHANGED << tables, db, faults >>
    /\ UNCHANGED << maxOpenConns, conns, recreateDatabase, outer, ran,
                    compositeRet, recreateRet, SchemaVars, RaceVars, ChanVars >>

\* RecreateDatabase on a handle of its own: DROP DATABASE, CREATE DATABASE
\* and Close; a failing statement returns before Close.  After DROP the
\* database holds no row and no schema statement.
RecreateDatabase(failing) ==
    /\ pc = "idle" /\ spc = "idle"
    /\ CalledAs("RecreateDatabase")
    /\ calls < MaxCalls
    /\ calls' = calls + 1
    /\ Outcome(failing = "none")
    /\ recreateRet' = IF failing = "none" THEN NoError ELSE failing
    /\ IF failing = "drop error"
       THEN UNCHANGED << tables, applied >>
       ELSE tables' = NoRows /\ applied' = << >>
    /\ conns' = IF failing = "create error" THEN conns + 1 ELSE conns
    /\ NoImportStep
    /\ UNCHANGED << db, insertGoroutinesCnt, maxOpenConns, panicked,
                    recreateDatabase, compositeRet >>
    /\ UNCHANGED << schemaFile, spc, queries, executed, schemaTx, schemaStmts,
                    schemaRet, RaceVars, ChanVars >>


(***************************************************************************)
(* LoadDbSchema.  The schema file is a sequence of characters; a statement *)
(* is a piece between two ";" with the spaces at its ends removed.         *)
(***************************************************************************)
Chars == {"a", " ", ";"}
SchemaFiles == UNION {[1..n -> Chars] : n \in 0..MaxSchemaLen}

\* strings.Split
RECURSIVE Split(_, _)
Split(s, sep) ==
    IF \E i \in DOMAIN s : s[i] = sep
    THEN LET i == CHOOSE i \in DOMAIN s :
                      s[i] = sep /\ \A j \in 1..(i - 1) : s[j] # sep
         IN  << SubSeq(s, 1, i - 1) >> \o Split(SubSeq(s, i + 1, Len(s)), sep)
    ELSE << s >>

\* strings.TrimSpace
RECURSIVE TrimSpace(_)
TrimSpace(s) ==
    IF s # << >> /\ Head(s) = " " THEN TrimSpace(Tail(s))
    ELSE IF s # << >> /\ s[Len(s)] = " " THEN TrimSpace(SubSeq(s, 1, Len(s) - 1))
    ELSE s

\* history of the statements LoadDbSchema sends on its transaction
SchemaSent(op, query) ==
    schemaStmts' = Append(schemaStmts, [op |-> op, query |-> query])

\* LoadDbSchema: where a failing statement of the file leads, in a build
\* that goes on with the next statement
AfterExec_goOn(failed) == "exec"

\* LoadDbSchema: where a statement of the file leads: the next piece, or
\* the return of its error
AfterExec(failed) == IF failed THEN "defers" ELSE "exec"

SchemaFrame ==
    /\ NoImportStep
    /\ UNCHANGED << insertGoroutinesCnt, panicked, recreateDatabase, compositeRet,
                    recreateRet, schemaFile, RaceVars, ChanVars >>

\* LoadDbSchema: ensureDbConnected
LoadDbSchema(ok) ==
    /\ pc = "idle" /\ spc = "idle"
    /\ CalledAs("LoadDbSchema")
    /\ calls < MaxCalls
    /\ calls' = calls + 1
    /\ Connect(ok)
    /\ spc' = IF ok THEN "begin" ELSE "return"
    /\ schemaRet' = IF ok THEN "running" ELSE "connect error"
    /\ queries' = << >> /\ executed' = << >> /\ schemaTx' = "none"
    /\ schemaStmts' = << >>
    /\ SchemaFrame
    /\ UNCHANGED << tables, applied >>

SchemaStepFrame ==
    /\ SchemaFrame
    /\ UNCHANGED << tables, db, calls, maxOpenConns, conns, outer, ran, lastOp >>

\* this.db.Begin
SchemaBegin(ok) ==
    /\ spc = "begin"
    /\ Outcome(ok)
    /\ schemaTx' = IF ok THEN "open" ELSE "none"
    /\ spc' = IF ok THEN "fk" ELSE "return"
    /\ schemaRet' = IF ok THEN schemaRet ELSE "begin error"
    /\ SchemaStepFrame
    /\ UNCHANGED << queries, executed, applied, schemaStmts >>

\* SET FOREIGN_KEY_CHECKS=0 on the transaction
SchemaFkDisable(ok) ==
    /\ spc = "fk"
    /\ Outcome(ok)
    /\ SchemaSent("FK0", << >>)
    /\ spc' = IF ok THEN "read" ELSE "rollback"
    /\ schemaRet' = IF ok THEN schemaRet ELSE "fk error"
    /\ SchemaStepFrame
    /\ UNCHANGED << queries, executed, schemaTx, applied >>

\* ioutil.ReadFile and strings.Split
SchemaRead(ok) ==
    /\ spc = "read"
    /\ Outcome(ok)
    /\ queries' = IF ok THEN Split(schemaFile, ";") ELSE << >>
    /\ spc' = IF ok THEN "exec" ELSE "defers"
    /\ schemaRet' = IF ok THEN schemaRet ELSE "io error"
    /\ SchemaStepFrame
    /\ UNCHANGED << executed, schemaTx, applied, schemaStmts >>

\* one turn of the loop: the piece is trimmed, skipped when empty, else
\* executed on the transaction
SchemaExec(ok) ==
    /\ spc = "exec"
    /\ queries # << >>
    /\ LET query == TrimSpace(Head(queries))
       IN  IF Len(query) = 0
           THEN /\ ok
                /\ UNCHANGED << faults, executed, schemaStmts, spc, schemaRet >>
           ELSE /\ Outcome(ok)
                /\ SchemaSent("EXEC", query)
                /\ executed' = IF ok THEN Append(executed, query) ELSE executed
                /\ spc' = AfterExec(~ok)
                /\ schemaRet' = IF ok THEN schemaRet ELSE "exec error"
    /\ queries' = Tail(queries)
    /\ SchemaStepFrame
    /\ UNCHANGED << schemaTx, applied >>

\* return tx.Commit()
SchemaCommit(ok) ==
    /\ spc = "exec"
    /\ queries = << >>
    /\ Outcome(ok)
    /\ SchemaSent("COMMIT", << >>)
    /\ schemaTx' = IF ok THEN "committed" ELSE "failed"
    /\ applied' = IF ok THEN applied \o executed ELSE applied
    /\ schemaRet' = IF ok THEN NoError ELSE "commit error"
    /\ spc' = "defers"
    /\ SchemaStepFrame
    /\ UNCHANGED << queries, executed >>

\* the deferred SET FOREIGN_KEY_CHECKS=1: sent when the transaction is
\* still open, its result is dropped
SchemaDefers ==
    /\ spc = "defers"
    /\ IF schemaTx = "open" THEN SchemaSent("FK1", << >>) ELSE UNCHANGED schemaStmts
    /\ spc' = "rollback"
    /\ SchemaStepFrame
    /\ UNCHANGED << faults, queries, executed, schemaTx, applied, schemaRet >>

\* the deferred tx.Rollback: the statements of an open transaction are
\* discarded
SchemaRollback ==
    /\ spc = "rollback"
    /\ IF schemaTx = "open"
       THEN /\ SchemaSent("ROLLBACK", << >>)
            /\ schemaTx' = "rolled back"
            /\ executed' = << >>
       ELSE UNCHANGED << schemaStmts, schemaTx, executed >>
    /\ spc' = "return"
    /\ SchemaStepFrame
    /\ UNCHANGED << faults, queries, applied, schemaRet >>

\* LoadDbSchema returns; this.db stays as it is
SchemaReturn ==
    /\ spc = "return"
    /\ spc' = "idle"
    /\ SchemaStepFrame
    /\ UNCHANGED << faults, queries, executed, schemaTx, applied, schemaStmts,
                    schemaRet >>

LoadDbSchemaSteps ==
    \/ \E ok \in BOOLEAN : SchemaBegin(ok)
    \/ \E ok \in BOOLEAN : SchemaFkDisable(ok)
    \/ \E ok \in BOOLEAN : SchemaRead(ok)
    \/ \E ok \in BOOLEAN : SchemaExec(ok)
    \/ \E ok \in BOOLEAN : SchemaCommit(ok)
    \/ SchemaDefers
    \/ SchemaRollback
    \/ SchemaReturn

\* a process that calls LoadDbSchema only, on any schema file
InitSchema ==
    /\ rdir = [c \in Callers |-> "A"]
    /\ disk = Disk(OneRecord, TwoRecords, WideFirst)
    /\ schemaFile \in SchemaFiles
    /\ recreateDatabase = TRUE
    /\ InitRest

NextSchema ==
    \/ \E ok \in BOOLEAN : LoadDbSchema(ok)
    \/ LoadDbSchemaSteps

SpecSchema == InitSchema /\ [][NextSchema]_vars


(***************************************************************************)
(* RecreateDatabaseWithSchemaAndImportFixtures.                            *)
(***************************************************************************)
\* the first operation it calls
FirstStep(flag) == IF flag THEN Calls("RecreateDatabase") ELSE Calls("ImportFixtures")

\* where the return of an operation leads, in a build that drops the
\* error of LoadDbSchema
AfterStep_schemaErrorDropped(op, err) ==
    IF op = "RecreateDatabase"
    THEN IF err # NoError THEN NotRunning ELSE Calls("LoadDbSchema")
    ELSE IF op = "LoadDbSchema" THEN Calls("ImportFixtures")
    ELSE NotRunning

\* where the return of an operation leads: out with its error, else to
\* the next operation
AfterStep(op, err) ==
    IF err # NoError THEN NotRunning
    ELSE IF op = "RecreateDatabase" THEN Calls("LoadDbSchema")
    ELSE IF op = "LoadDbSchema" THEN Calls("ImportFixtures")
    ELSE NotRunning

\* the value the operation it waits for has returned
Returns(op) ==
    IF op = "RecreateDatabase" THEN recreateRet
    ELSE IF op = "LoadDbSchema" THEN schemaRet
    ELSE ret

\* calls the three operations make of MaxCalls
StepsOf(flag) == IF flag THEN 3 ELSE 1

CompositeFrame ==
    /\ NoImportStep
    /\ UNCHANGED << tables, db, faults, calls >>
    /\ UNCHANGED << insertGoroutinesCnt, maxOpenConns, panicked, conns,
                    recreateDatabase, recreateRet, SchemaVars, RaceVars, ChanVars >>

RecreateDatabaseWithSchemaAndImportFixtures ==
    /\ pc = "idle" /\ spc = "idle" /\ outer = NotRunning /\ ~panicked
    /\ calls + StepsOf(recreateDatabase) <= MaxCalls
    /\ lastOp' = [op |-> "RecreateDatabaseWithSchemaAndImportFixtures", arg |-> 0]
    /\ outer' = FirstStep(recreateDatabase)
    /\ ran' = << >>
    /\ compositeRet' = "running"
    /\ CompositeFrame

\* the operation it called has returned
CompositeStep ==
    /\ pc = "idle" /\ spc = "idle"
    /\ outer[1] = "in"
    /\ outer' = AfterStep(outer[2], Returns(outer[2]))
    /\ compositeRet' = IF outer' = NotRunning THEN Returns(outer[2]) ELSE compositeRet
    /\ CompositeFrame
    /\ UNCHANGED << ran, lastOp >>

\* a process that calls the public operations of one Fixturer, of
\* directory B, in any order
InitOps ==
    /\ rdir = [c \in Callers |-> "A"]
    /\ disk = Disk(OneRecord, TwoRecords, WideFirst)
    /\ schemaFile = << "a", ";", "a" >>
    /\ recreateDatabase \in BOOLEAN
    /\ InitRest

ImportFixturesSteps ==
    \/ \E ok \in BOOLEAN : EnsureDbConnected(ok)
    \/ ImportYmlFixtures
    \/ Push
    \/ \E f \in YmlNames : TaskRead(f)
    \/ \E f \in YmlNames : TaskLock(f)
    \/ \E f \in YmlNames : TaskAppend(f)
    \/ \E f \in YmlNames : TaskBuild(f)
    \/ \E f \in YmlNames : TaskStore(f)
    \/ \E f \in YmlNames : TaskDone(f)
    \/ PushWait
    \/ PushRecord
    \/ MarkDir
    \/ \E ok \in BOOLEAN : LoadFkDisable(ok)
    \/ \E ok \in BOOLEAN : LoadTruncate(ok)
    \/ \E ok \in BOOLEAN : LoadBegin(ok)
    \/ \E f \in YmlNames, ok \in BOOLEAN : LoadInsert(f, ok)
    \/ \E ok \in BOOLEAN : LoadCommit(ok)
    \/ LoadDefers
    \/ ImportReturn

NextOps ==
    \/ \E failing \in {"none", "drop error", "create error"} : RecreateDatabase(failing)
    \/ \E ok \in BOOLEAN : LoadDbSchema(ok)
    \/ LoadDbSchemaSteps
    \/ \E ok \in BOOLEAN : ImportFixtures("B", ok)
    \/ ImportFixturesSteps
    \/ RecreateDatabaseWithSchemaAndImportFixtures
    \/ CompositeStep

SpecOps == InitOps /\ [][NextOps]_vars

\* a process that sets the count of goroutines of one Fixturer, of
\* directory A, and imports
NextCnt ==
    \/ \E cnt \in 0..MaxCnt : SetInsertGoroutinesCnt(cnt)
    \/ \E ok \in BOOLEAN : ImportFixtures("A", ok)
    \/ ImportFixturesSteps

SpecCnt == InitOps /\ [][NextCnt]_vars

\* a process that imports the directory B and a directory without any
\* fixture file, in any order
InitEmpty ==
    /\ rdir = [c \in Callers |-> "A"]
    /\ disk = Disk(OneRecord, TwoRecords, WideFirst)
    /\ schemaFile = << "a" >>
    /\ recreateDatabase = TRUE
    /\ InitRest

NextEmpty ==
    \/ \E d \in {"B", EmptyDir}, ok \in BOOLEAN : ImportFixtures(d, ok)
    \/ ImportFixturesSteps

SpecEmpty == InitEmpty /\ [][NextEmpty]_vars

(***************************************************************************)
(* The parse phase alone: one ImportFixtures call up to the return of      *)
(* pushInsertQueriesFromYmlToChannel, on every content of the fixture      *)
(* files, with the goroutines and the caller scheduled fairly.             *)
(***************************************************************************)
AllDisks ==
    { Disk(posts, usersA, usersB) :
        posts \in Contents("A", PostsYml),
        usersA \in Contents("A", UsersYml),
        usersB \in Contents("B", UsersYml) }

InitParse ==
    /\ rdir = [c \in Callers |-> "A"]
    /\ disk \in AllDisks
    /\ schemaFile = << "a" >>
    /\ recreateDatabase = TRUE
    /\ InitRest

\* the steps of one goroutine
TaskSteps(f) ==
    \/ TaskRead(f)
    \/ TaskLock(f)
    \/ TaskAppend(f)
    \/ TaskBuild(f)
    \/ TaskStore(f)
    \/ TaskDone(f)

\* the steps of the caller in pushInsertQueriesFromYmlToChannel
PushSteps ==
    \/ Push
    \/ PushWait
    \/ PushRecord

NextParse ==
    \/ \E d \in Dirs, ok \in BOOLEAN : ImportFixtures(d, ok)
    \/ \E ok \in BOOLEAN : EnsureDbConnected(ok)
    \/ ImportYmlFixtures
    \/ PushSteps
    \/ \E f \in YmlNames : TaskSteps(f)

SpecParse ==
    /\ InitParse /\ [][NextParse]_vars
    /\ WF_vars(PushSteps)
    /\ \A f \in YmlNames : WF_vars(TaskSteps(f))


(***************************************************************************)
(* Concurrent ImportFixtures calls: two goroutines of the test, each on a  *)
(* Fixturer of its own, in importYmlFixtures with the handle connected.    *)
(* The steps are the accesses to the package variables and the calls on    *)
(* the mutexes: a position such as "test" or "store" is an access in       *)
(* progress, which begins with the step that enters it and ends with the   *)
(* step that leaves it.  The statements of loadParsedData are those of the *)
(* specification Spec and are left out here.                               *)
(***************************************************************************)
\* the accesses to the package variables in progress, each with the
\* mutexes its goroutine holds
HeldBy(c) == {m \in Mutexes : held[m] = <<"caller", c>>}
HeldByTask(c, f) == {m \in Mutexes : held[m] = <<"task", c, f>>}
Access(by, variable, write, locks) ==
    [by |-> by, variable |-> variable, write |-> write, locks |-> locks]

Accesses ==
    {Access(<<"caller", c>>, "finishedParsedDirs", FALSE, HeldBy(c)) :
        c \in {c \in Callers : rpc[c] = "test"}}
    \cup {Access(<<"caller", c>>, "finishedTablseNames", TRUE, HeldBy(c)) :
        c \in {c \in Callers : rpc[c] = "record"}}
    \cup {Access(<<"caller", c>>, "finishedParsedDirs", TRUE, HeldBy(c)) :
        c \in {c \in Callers : rpc[c] = "mark"}}
    \cup {Access(<<"caller", c>>, "finishedTablseNames", FALSE, HeldBy(c)) :
        c \in {c \in Callers : rpc[c] = "truncate"}}
    \cup {Access(<<"caller", c>>, "insertMap", FALSE, HeldBy(c)) :
        c \in {c \in Callers : rpc[c] = "insert"}}
    \cup {Access(<<"task", x[1], x[2]>>, "insertMap", TRUE, HeldByTask(x[1], x[2])) :
        x \in {x \in Callers \X YmlNames : rtask[x[1]][x[2]] = "store"}}

\* an access of another goroutine to the variable is in progress
Overlapped(by, variable) ==
    \E a \in Accesses : a.variable = variable /\ a.by # by

\* the end of a write: when it has overlapped another access the runtime
\* may stop the process (concurrent map writes) or let it go on
EndOfWrite(by, variable) ==
    IF Overlapped(by, variable) THEN fatal' \in BOOLEAN ELSE fatal' = FALSE

RaceFrame ==
    /\ LoadUnchanged /\ PushUnchanged /\ HistoryUnchanged
    /\ UNCHANGED << disk, tables, pc, fixturesPathYml, db, files, cacheHit, ret,
                    faults, rdir >>
    /\ UNCHANGED << OpsVars, SchemaVars, ChanVars >>

\* importYmlFixtures: mutex.Lock() on the mutex of the call, then the
\* read of finishedParsedDirs begins
RaceTestBegin(c) ==
    /\ ~fatal /\ rpc[c] = "idle"
    /\ held[ImportMutex(c)] = Free
    /\ held' = [held EXCEPT ![ImportMutex(c)] = <<"caller", c>>]
    /\ rpc' = [rpc EXCEPT ![c] = "test"]
    /\ RaceFrame /\ CacheUnchanged
    /\ UNCHANGED << rtask, rtablesNames, rwg, fatal >>

\* the read ends: found, loadParsedData with the mutex held; else
\* mutex.Unlock() and pushInsertQueriesFromYmlToChannel
RaceTestEnd(c) ==
    /\ ~fatal /\ rpc[c] = "test"
    /\ IF rdir[c] \in finishedParsedDirs
       THEN rpc' = [rpc EXCEPT ![c] = "truncate"] /\ UNCHANGED held
       ELSE /\ rpc' = [rpc EXCEPT ![c] = "push"]
            /\ held' = [held EXCEPT ![ImportMutex(c)] = Free]
    /\ RaceFrame /\ CacheUnchanged
    /\ UNCHANGED << rtask, rtablesNames, rwg, fatal >>

\* wg.Add, tablesNames, the mutex of the call and one goroutine per file
RacePush(c) ==
    /\ ~fatal /\ rpc[c] = "push"
    /\ rwg' = [rwg EXCEPT ![c] = WgAdd(GetYmlFilesList(rdir[c]))]
    /\ rtablesNames' = [rtablesNames EXCEPT ![c] = << >>]
    /\ rtask' = [rtask EXCEPT ![c] =
          [f \in YmlNames |->
              IF f \in FileNames(GetYmlFilesList(rdir[c])) THEN "lock1" ELSE "none"]]
    /\ rpc' = [rpc EXCEPT ![c] = "wait"]
    /\ RaceFrame /\ CacheUnchanged
    /\ UNCHANGED << held, fatal >>

\* a goroutine: mutex.Lock(), before the append and before the store
\* (the write of insertMap begins)
RaceTaskLock(c, f) ==
    /\ ~fatal /\ rtask[c][f] \in {"lock1", "lock2"}
    /\ held[PushMutex(c)] = Free
    /\ held' = [held EXCEPT ![PushMutex(c)] = <<"task", c, f>>]
    /\ rtask' = [rtask EXCEPT ![c][f] = IF @ = "lock1" THEN "append" ELSE "store"]
    /\ RaceFrame /\ CacheUnchanged
    /\ UNCHANGED << rpc, rtablesNames, rwg, fatal >>

\* tablesNames = append(tablesNames, tableName); mutex.Unlock()
RaceTaskAppend(c, f) ==
    /\ ~fatal /\ rtask[c][f] = "append"
    /\ rtablesNames' = [rtablesNames EXCEPT ![c] = Append(@, TrimSuffix(f, ".yml"))]
    /\ held' = [held EXCEPT ![PushMutex(c)] = Free]
    /\ rtask' = [rtask EXCEPT ![c][f] = "lock2"]
    /\ RaceFrame /\ CacheUnchanged
    /\ UNCHANGED << rpc, rwg, fatal >>

\* insertMap[filename] = qb ends; mutex.Unlock(); wg.Done()
RaceTaskStore(c, f) ==
    /\ ~fatal /\ rtask[c][f] = "store"
    /\ LET data == Unmarshal(ReadFile(disk[<<rdir[c], f>>])).data
       IN  \E allKeys \in AllKeysOrders(AllKeysMap(data)) :
              insertMap' = StoreBatch(insertMap, f,
                  AddMaps(InsertColumns(TrimSuffix(f, ".yml"), allKeys), data))
    /\ EndOfWrite(<<"task", c, f>>, "insertMap")
    /\ held' = [held EXCEPT ![PushMutex(c)] = Free]
    /\ rtask' = [rtask EXCEPT ![c][f] = "done"]
    /\ rwg' = [rwg EXCEPT ![c] = @ - 1]
    /\ RaceFrame
    /\ UNCHANGED << finishedTablseNames, finishedParsedDirs, rpc, rtablesNames >>

\* wg.Wait() returns; mutex.Lock(); the write of finishedTablseNames begins
RaceRecordBegin(c) ==
    /\ ~fatal /\ rpc[c] = "wait"
    /\ WgWaitReturns(rwg[c])
    /\ held[PushMutex(c)] = Free
    /\ held' = [held EXCEPT ![PushMutex(c)] = <<"caller", c>>]
    /\ rpc' = [rpc EXCEPT ![c] = "record"]
    /\ RaceFrame /\ CacheUnchanged
    /\ UNCHANGED << rtask, rtablesNames, rwg, fatal >>

\* finishedTablseNames = tablesNames ends; mutex.Unlock(); back in
\* importYmlFixtures the write of finishedParsedDirs begins, no mutex held
RaceRecordEnd(c) ==
    /\ ~fatal /\ rpc[c] = "record"
    /\ finishedTablseNames' = RecordTablesNames(finishedTablseNames, rtablesNames[c])
    /\ EndOfWrite(<<"caller", c>>, "finishedTablseNames")
    /\ held' = [held EXCEPT ![PushMutex(c)] = Free]
    /\ rpc' = [rpc EXCEPT ![c] = "mark"]
    /\ RaceFrame
    /\ UNCHANGED << finishedParsedDirs, insertMap, rtask, rtablesNames, rwg >>

\* finishedParsedDirs[this.fixturesPathYml] = struct{}{} ends;
\* loadParsedData begins with the range over finishedTablseNames
RaceMarkEnd(c) ==
    /\ ~fatal /\ rpc[c] = "mark"
    /\ finishedParsedDirs' = finishedParsedDirs \cup {rdir[c]}
    /\ EndOfWrite(<<"caller", c>>, "finishedParsedDirs")
    /\ rpc' = [rpc EXCEPT ![c] = "truncate"]
    /\ RaceFrame
    /\ UNCHANGED << finishedTablseNames, insertMap, rtask, rtablesNames, rwg, held >>

\* loadParsedData: the range over finishedTablseNames ends, the range
\* over insertMap begins
RaceLoadInsert(c) ==
    /\ ~fatal /\ rpc[c] = "truncate"
    /\ rpc' = [rpc EXCEPT ![c] = "insert"]
    /\ RaceFrame /\ CacheUnchanged
    /\ UNCHANGED << rtask, rtablesNames, rwg, held, fatal >>

\* the range over insertMap ends; importYmlFixtures returns, after
\* mutex.Unlock() when the directory was found
RaceReturn(c) ==
    /\ ~fatal /\ rpc[c] = "insert"
    /\ rpc' = [rpc EXCEPT ![c] = "returned"]
    /\ held' = [held EXCEPT ![ImportMutex(c)] = Free]
    /\ RaceFrame /\ CacheUnchanged
    /\ UNCHANGED << rtask, rtablesNames, rwg, fatal >>

InitRace ==
    /\ rdir \in [Callers -> Dirs]
    /\ disk = Disk(OneRecord, TwoRecords, WideFirst)
    /\ schemaFile = << "a" >>
    /\ recreateDatabase = TRUE
    /\ InitRest

NextRace ==
    \/ \E c \in Callers : RaceTestBegin(c)
    \/ \E c \in Callers : RaceTestEnd(c)
    \/ \E c \in Callers : RacePush(c)
    \/ \E c \in Callers, f \in YmlNames : RaceTaskLock(c, f)
    \/ \E c \in Callers, f \in YmlNames : RaceTaskAppend(c, f)
    \/ \E c \in Callers, f \in YmlNames : RaceTaskStore(c, f)
    \/ \E c \in Callers : RaceRecordBegin(c)
    \/ \E c \in Callers : RaceRecordEnd(c)
    \/ \E c \in Callers : RaceMarkEnd(c)
    \/ \E c \in Callers : RaceLoadInsert(c)
    \/ \E c \in Callers : RaceReturn(c)

SpecRace == InitRace /\ [][NextRace]_vars


(***************************************************************************)
(* getInsertQueriesFromYml, the collector of InitFixtures: one goroutine   *)
(* per entry of the listing sends its insert statements on chData and then *)
(* true on chEnd; the caller receives from both and returns when it has    *)
(* counted cap(files) values of chEnd.  The channels have no buffer: a     *)
(* send and its receive are one step.                                      *)
(***************************************************************************)
\* ioutil.ReadFile of an entry, the error dropped: nil for a directory
OldReadFile(d, entry) ==
    IF entry.isDir \/ <<d, entry.name>> \notin DOMAIN disk
    THEN Doc(TRUE, << >>)
    ELSE ReadFile(disk[<<d, entry.name>>])

\* squirrel.Insert(tableName).Columns(keys...).Values(values...)
InsertValues(tableName, keys, item) ==
    [table |-> tableName, columns |-> keys,
     rows |-> << [k \in 1..Len(keys) |-> item[keys[k]]] >>]

\* cap(files) of the slice ioutil.ReadDir returns: its length or more
Capacities(list) == Len(list)..(Len(list) + MaxSpare)

\* if i == filesCount
CountReached(count, capacity) == count = capacity

ChanFrame ==
    /\ CacheUnchanged /\ LoadUnchanged /\ PushUnchanged /\ HistoryUnchanged
    /\ UNCHANGED << disk, tables, pc, db, cacheHit, ret, faults >>
    /\ UNCHANGED << OpsVars, SchemaVars, RaceVars >>

\* ioutil.ReadDir (its error dropped), the channels, cap(files) and one
\* goroutine per entry
GetInsertQueriesFromYml(d, capacity) ==
    /\ collector = "idle"
    /\ fixturesPathYml' = d
    /\ files' = ReadDir(d)
    /\ capacity \in Capacities(files')
    /\ filesCount' = capacity
    /\ ended' = 0
    /\ insertQueries' = << >>
    /\ sender' = [k \in DOMAIN files' |-> [pc |-> "start", data |-> << >>]]
    /\ collector' = "select"
    /\ ChanFrame

\* a goroutine: the suffix test, ReadFile and yaml.Unmarshal
SenderRead(k) ==
    /\ k \in DOMAIN sender
    /\ sender[k].pc = "start"
    /\ IF ~HasSuffix(files[k].name, ".yml")
       THEN sender' = [sender EXCEPT ![k].pc = "returned"]
       ELSE LET data == Unmarshal(OldReadFile(fixturesPathYml, files[k])).data
            IN  sender' = [sender EXCEPT ![k] = [pc |-> "send", data |-> data]]
    /\ ChanFrame
    /\ UNCHANGED << fixturesPathYml, files, filesCount, ended, insertQueries,
                    collector >>

\* chData <- qb, received by the select of the caller
SendData(k) ==
    /\ k \in DOMAIN sender
    /\ sender[k].pc = "send" /\ sender[k].data # << >>
    /\ collector = "select"
    /\ LET item == Head(sender[k].data)
       IN  \E keys \in AllKeysOrders(DOMAIN item) :
              insertQueries' = Append(insertQueries,
                  InsertValues(TrimSuffix(files[k].name, ".yml"), keys, item))
    /\ sender' = [sender EXCEPT ![k].data = Tail(@)]
    /\ ChanFrame
    /\ UNCHANGED << fixturesPathYml, files, filesCount, ended, collector >>

\* chEnd <- true, received by the select of the caller, which counts it
\* and returns at cap(files)
SendEnd(k) ==
    /\ k \in DOMAIN sender
    /\ sender[k].pc = "send" /\ sender[k].data = << >>
    /\ collector = "select"
    /\ ended' = ended + 1
    /\ collector' = IF CountReached(ended', filesCount) THEN "returned" ELSE "select"
    /\ sender' = [sender EXCEPT ![k].pc = "returned"]
    /\ ChanFrame
    /\ UNCHANGED << fixturesPathYml, files, filesCount, insertQueries >>

ChanDirs == {"A", "B", EmptyDir, BareDir}

InitChan ==
    /\ rdir = [c \in Callers |-> "A"]
    /\ disk \in AllDisks
    /\ schemaFile = << "a" >>
    /\ recreateDatabase = TRUE
    /\ InitRest

NextChan ==
    \/ \E d \in ChanDirs : \E capacity \in Capacities(ReadDir(d)) :
          GetInsertQueriesFromYml(d, capacity)
    \/ \E k \in DOMAIN sender : SenderRead(k)
    \/ \E k \in DOMAIN sender : SendData(k)
    \/ \E k \in DOMAIN sender : SendEnd(k)

SpecChan ==
    /\ InitChan /\ [][NextChan]_vars
    /\ WF_vars(\E k \in DOMAIN sender : SenderRead(k))
    /\ WF_vars(\E k \in DOMAIN sender : SendData(k))
    /\ WF_vars(\E k \in DOMAIN sender : SendEnd(k))


(***************************************************************************)
(* Vocabulary of the properties.                                           *)
(***************************************************************************)
LoadPcs == {"fk", "truncate", "insert", "defers", "return"}
Launched == {f \in YmlNames : task[f].pc # "none"}
Built == {f \in YmlNames : task[f].pc \in {"lock2", "store", "defer", "done"}}
AllTasksDone == \A f \in Launched : task[f].pc = "done"

\* the call has returned to its caller
Returned == pc = "idle" /\ calls > 0 /\ ret # "running"

\* the mapping items of a document, as written in the file
Records(y) == SelectSeq(y.items, IsMapping)
KeysOfItem(item) == {item.pairs[i][1] : i \in DOMAIN item.pairs}
KeysOfRecords(records) == UNION {KeysOfItem(records[i]) : i \in DOMAIN records}
Range(seq) == {seq[i] : i \in DOMAIN seq}

\* the keys of a sequence of records in first-occurrence order
RECURSIVE FirstOccurrence(_, _)
FirstOccurrence(pairs, seen) ==
    IF pairs = << >> THEN seen
    ELSE FirstOccurrence(Tail(pairs),
            IF Head(pairs)[1] \in Range(seen) THEN seen
            ELSE Append(seen, Head(pairs)[1]))
RECURSIVE FirstOccurrenceOrder(_, _)
FirstOccurrenceOrder(records, seen) ==
    IF records = << >> THEN seen
    ELSE FirstOccurrenceOrder(Tail(records), FirstOccurrence(Head(records).pairs, seen))

(***************************************************************************)
(* C1: in a call that parses, the recording of the table names, the mark   *)
(* of the directory and the load are reached only when every launched      *)
(* goroutine has run its wg.Done(): one goroutine was launched per file,   *)
(* the wait group counts exactly the goroutines that are not done, and     *)
(* finishedTablseNames changes only when all of them are done.             *)
(***************************************************************************)
C1_LoadAfterEveryTask ==
    /\ [](~cacheHit /\ pc \in {"record", "mark"} \cup LoadPcs
            => Launched = FileNames(files) /\ AllTasksDone /\ wg = 0)
    /\ [](pc = "wait"
            => /\ Launched = FileNames(files)
               /\ wg = Cardinality({f \in Launched : task[f].pc # "done"}))
    /\ [][finishedTablseNames' # finishedTablseNames => AllTasksDone]_vars

\* the load starts after the two goroutines of a directory are done
C1_Witness ==
    /\ pc = "fk" /\ ~cacheHit
    /\ Cardinality(Launched) = 2
    /\ AllTasksDone
    /\ Len(finishedTablseNames) = 2


(***************************************************************************)
(* C2: a call for a directory that was already imported, all of whose      *)
(* file-system and database calls succeeded, has launched no goroutine,    *)
(* read no fixture file and executed exactly the insert builders that the  *)
(* first import of that directory executed.                                *)
(***************************************************************************)
C2_ReimportLoadsFirstBatches ==
    Returned /\ cacheHit /\ faults = 0
        => /\ Launched = {}
           /\ reads = 0
           /\ inserted = firstInserted[fixturesPathYml]

(***************************************************************************)
(* C3: a call for a directory that was already imported lists no           *)
(* directory and reads no fixture file, and leaves the row counts that the *)
(* first import of the directory left.                                     *)
(***************************************************************************)
C3_ReimportReadsNothing ==
    Returned /\ cacheHit /\ faults = 0
        => /\ listings = 0
           /\ reads = 0
           /\ tables = firstTables[fixturesPathYml]

(***************************************************************************)
(* C4: when the commit of loadParsedData has failed, every table holds     *)
(* the rows it held when ImportFixtures was called.                        *)
(***************************************************************************)
C4_FailedCommitKeepsRows ==
    pc \in {"return", "idle"} /\ loadErr = "commit error" => tables = preTables

(***************************************************************************)
(* C5: when loadParsedData has returned an error, ImportFixtures returns   *)
(* that error, on the parsing path and on the cached path.                 *)
(***************************************************************************)
C5_LoadErrorReturned ==
    Returned /\ loadErr # NoError => ret = loadErr

(***************************************************************************)
(* C6: in every load, every table of a builder of insertMap has been       *)
(* truncated when the insertions start, so every builder that is executed  *)
(* goes to a table truncated earlier in the same load (no call of the      *)
(* process having failed).                                                 *)
(***************************************************************************)
C6_EveryLoadedTableTruncated ==
    faults = 0 =>
        /\ pc = "insert" => \A f \in DOMAIN insertMap : insertMap[f].table \in truncated
        /\ pc \in LoadPcs => \A query \in inserted : query.table \in truncated

(***************************************************************************)
(* C7: in a parsing call whose database calls all succeeded, a file that   *)
(* could not be read or decoded contributes a builder without rows, every  *)
(* other file of the directory has its builder stored and executed, and    *)
(* ImportFixtures returns nil.                                             *)
(***************************************************************************)
Undecodable(f) == task[f].readErr \/ task[f].err

C7_MalformedFileSkipped ==
    Returned /\ ~cacheHit /\ faults = 0 /\ Launched # {}
        => /\ \A f \in Launched : Undecodable(f) => task[f].qb.rows = << >>
           /\ \A g \in Launched : ~Undecodable(g) =>
                 /\ g \in DOMAIN insertMap
                 /\ insertMap[g] = task[g].qb
                 /\ insertMap[g] \in inserted
           /\ ret = NoError


(***************************************************************************)
(* C8: after the parse phase of the first import of a process, when every  *)
(* file of the directory was read and decoded without error, insertMap     *)
(* holds as many builders as files were discovered, exactly one per table, *)
(* and the columns of each are the keys of the records of its file.        *)
(***************************************************************************)
WellFormed(f) == ~task[f].readErr /\ ~task[f].err

C8_OneBatchPerTable ==
    calls = 1 /\ ~cacheHit /\ pc \in {"record", "mark"} \cup LoadPcs
      /\ (\A f \in Launched : WellFormed(f))
        => /\ Cardinality(DOMAIN insertMap) = Len(files)
           /\ \A f \in FileNames(files) :
                 /\ {g \in DOMAIN insertMap :
                        insertMap[g].table = TrimSuffix(f, ".yml")} = {f}
                 /\ Range(insertMap[f].columns) = KeysOfRecords(Records(task[f].y))

\* two well-formed files, two builders, one of them with three columns
C8_Witness ==
    /\ calls = 1 /\ ~cacheHit /\ pc = "fk"
    /\ Cardinality(Launched) = 2
    /\ \A f \in Launched : WellFormed(f)
    /\ Cardinality(DOMAIN insertMap) = 2
    /\ \E f \in DOMAIN insertMap : Len(insertMap[f].columns) = 3

(***************************************************************************)
(* C9: every builder a goroutine has built has one column per distinct     *)
(* field name of the records of its file and one row per record; every     *)
(* row has as many slots as there are columns, holding at the position of  *)
(* each column the value the record gives to it, or the absent marker      *)
(* when the record omits it.  The builders of insertMap have rows as long  *)
(* as their columns.                                                       *)
(***************************************************************************)
ValueIn(item, key, value) ==
    \E i \in DOMAIN item.pairs : item.pairs[i] = <<key, value>>

C9_RowsAlignedToColumns ==
    /\ \A f \in Built :
         LET qb == task[f].qb
             records == Records(task[f].y)
         IN  /\ Len(qb.columns) = Cardinality(KeysOfRecords(records))
             /\ Range(qb.columns) = KeysOfRecords(records)
             /\ Len(qb.rows) = Len(records)
             /\ \A r \in DOMAIN qb.rows :
                   /\ Len(qb.rows[r]) = Len(qb.columns)
                   /\ \A i \in DOMAIN qb.columns :
                         IF qb.columns[i] \in KeysOfItem(records[r])
                         THEN ValueIn(records[r], qb.columns[i], qb.rows[r][i])
                         ELSE qb.rows[r][i] = Absent
    /\ \A f \in DOMAIN insertMap :
         \A r \in DOMAIN insertMap[f].rows :
            Len(insertMap[f].rows[r]) = Len(insertMap[f].columns)

\* a stored builder one row of which holds the absent marker and a value
C9_Witness ==
    \E f \in DOMAIN insertMap :
        \E r \in DOMAIN insertMap[f].rows :
            /\ Absent \in Range(insertMap[f].rows[r])
            /\ Range(insertMap[f].rows[r]) # {Absent}

ListingFailsInStep == pc = "idle" /\ calls' = calls + 1 /\ faults' = faults + 1

C14_ListingFailureDoesNothing ==
    /\ [][ListingFailsInStep =>
            /\ pc' = "idle" /\ ret' = "io error"
            /\ ~db' /\ stmts' = << >>
            /\ \A f \in YmlNames : task'[f].pc = "none"
            /\ UNCHANGED << finishedParsedDirs, finishedTablseNames, insertMap,
                            tables >>]_vars
    /\ [](Returned /\ ret = "io error" => ~db /\ stmts = << >> /\ Launched = {})

\* the listing fails in a process whose cache is not empty
C14_Witness ==
    /\ Returned /\ ret = "io error"
    /\ finishedParsedDirs # {} /\ DOMAIN insertMap # {}
    /\ ~db /\ stmts = << >>

(***************************************************************************)
(* C15: when loadParsedData has exited, whichever way, the last statement  *)
(* it sent is SET FOREIGN_KEY_CHECKS=1, and it sent it once.               *)
(***************************************************************************)
C15_FkReenabledOnEveryExit ==
    pc = "return" =>
        /\ stmts # << >>
        /\ stmts[Len(stmts)] = "FK1"
        /\ Cardinality({i \in DOMAIN stmts : stmts[i] = "FK1"}) = 1

(***************************************************************************)
(* C16: once the transaction of loadParsedData was begun, the load exits   *)
(* only after the builder of every key of insertMap was executed, failed   *)
(* or not, and the commit was attempted; it returns nil when the commit    *)
(* succeeded.                                                              *)
(***************************************************************************)
Count(seq, op) == Cardinality({i \in DOMAIN seq : seq[i] = op})

C16_InsertFailureDoesNotAbort ==
    pc \in {"defers", "return"} /\ tx # "none" =>
        /\ pending = {}
        /\ inserted = {insertMap[f] : f \in DOMAIN insertMap}
        /\ Count(stmts, "INSERT") = Cardinality(DOMAIN insertMap)
        /\ Count(stmts, "COMMIT") = 1
        /\ tx \in {"committed", "failed"}
        /\ tx = "committed" => loadErr = NoError

\* a committed load one builder of which has rows and inserted none,
\* another builder having inserted its rows
C16_Witness ==
    /\ pc = "defers" /\ tx = "committed" /\ loadErr = NoError
    /\ \E q \in inserted : q.rows # << >> /\ txRows[q.table] = 0
    /\ \E q \in inserted : q.rows # << >> /\ txRows[q.table] = Len(q.rows)

(***************************************************************************)
(* C20: when loadParsedData starts, and all along the load, every table of *)
(* finishedTablseNames has a builder in insertMap, under the name of its   *)
(* file; when the commit is reached, the builder of every truncated table  *)
(* has been executed.                                                      *)
(***************************************************************************)
HasBatch(tableName) ==
    \E f \in DOMAIN insertMap :
        TrimSuffix(f, ".yml") = tableName /\ insertMap[f].table = tableName

SetStep == lastOp'.op = "SetInsertGoroutinesCnt" /\ calls' = calls + 1

C12_EmptyDirectoryIsNoOp ==
    Returned /\ fixturesPathYml = EmptyDir /\ faults = 0 =>
        /\ ret = NoError
        /\ files = << >> /\ Launched = {}
        /\ truncated = {}
        /\ inserted = {} /\ Count(stmts, "INSERT") = 0
        /\ tables = preTables

(***************************************************************************)
(* C13.  RecreateDatabaseWithSchemaAndImportFixtures calls                 *)
(* RecreateDatabase, LoadDbSchema and ImportFixtures in that order when    *)
(* the flag is true and ImportFixtures alone when it is false; when an     *)
(* operation returns an error it returns that error and calls nothing      *)
(* more; else it goes on with the next one and returns what the last one   *)
(* returned.                                                               *)
(***************************************************************************)
StepsWhen(flag) ==
    IF flag THEN << "RecreateDatabase", "LoadDbSchema", "ImportFixtures" >>
    ELSE << "ImportFixtures" >>

C13_StopsAtFirstError ==
    /\ [](/\ Len(ran) <= Len(StepsWhen(recreateDatabase))
          /\ ran = SubSeq(StepsWhen(recreateDatabase), 1, Len(ran))
          /\ outer[1] = "call" => outer[2] = StepsWhen(recreateDatabase)[Len(ran) + 1]
          /\ outer[1] = "in" => outer[2] = ran[Len(ran)])
    /\ [][outer[1] = "in" /\ outer' # outer =>
            /\ ran' = ran
            /\ IF Returns(outer[2]) # NoError
                  \/ Len(ran) = Len(StepsWhen(recreateDatabase))
               THEN outer' = NotRunning /\ compositeRet' = Returns(outer[2])
               ELSE /\ outer' = Calls(StepsWhen(recreateDatabase)[Len(ran) + 1])
                    /\ compositeRet' = "running"]_vars
    /\ [][outer = NotRunning => ran' = ran \/ ran' = << >>]_vars

C13_Witness ==
    /\ recreateDatabase /\ outer = NotRunning
    /\ ran = << "RecreateDatabase", "LoadDbSchema" >>
    /\ compositeRet = schemaRet /\ schemaRet \notin {NoError, "running"}

(***************************************************************************)
(* C18.  Whenever a public operation (LoadDbSchema, ImportFixtures,        *)
(* RecreateDatabase, RecreateDatabaseWithSchemaAndImportFixtures) has      *)
(* returned, this.db is nil and no handle the Fixturer connected is left   *)
(* open; stated for the calls in which nothing has failed.                 *)
(***************************************************************************)
NothingRunning == pc = "idle" /\ spc = "idle" /\ outer = NotRunning

C18_HandleBracketed ==
    NothingRunning /\ lastOp.op # "none" /\ faults = 0 => ~db /\ conns = 0

(***************************************************************************)
(* C19.  LoadDbSchema sends COMMIT if and only if the schema file was      *)
(* read and every non-empty statement of it (split on ";", trimmed) was    *)
(* executed with success, in order; the statements take effect by that     *)
(* commit only.  On a read failure or the first failing statement it       *)
(* executes no further statement of the file, returns that error and the   *)
(* transaction is rolled back.                                             *)
(***************************************************************************)
Statements(file) ==
    LET pieces == Split(file, ";")
        trimmed == [i \in DOMAIN pieces |-> TrimSpace(pieces[i])]
    IN  SelectSeq(trimmed, LAMBDA q : q # << >>)

SchemaExecs ==
    LET sel == SelectSeq(schemaStmts, LAMBDA m : m.op = "EXEC")
    IN  [i \in DOMAIN sel |-> sel[i].query]

CommitSent == \E i \in DOMAIN schemaStmts : schemaStmts[i].op = "COMMIT"

C19_CommitIffAllSucceed ==
    /\ [](spc = "return" =>
            /\ CommitSent <=> schemaRet \in {NoError, "commit error"}
            /\ CommitSent => SchemaExecs = Statements(schemaFile)
            /\ schemaRet = NoError <=> schemaTx = "committed"
            /\ schemaRet = "io error" =>
                   SchemaExecs = << >> /\ schemaTx = "rolled back" /\ executed = << >>
            /\ schemaRet = "exec error" =>
                   /\ SchemaExecs # << >>
                   /\ SchemaExecs = SubSeq(Statements(schemaFile), 1, Len(SchemaExecs))
                   /\ schemaTx = "rolled back" /\ executed = << >>)
    /\ [][schemaStmts' # schemaStmts /\ schemaStmts' # << >>
            /\ schemaStmts'[Len(schemaStmts')].op = "COMMIT" =>
                executed = Statements(schemaFile)]_vars
    /\ [][applied' # applied =>
            /\ schemaTx = "open" /\ schemaTx' = "committed"
            /\ applied' = applied \o Statements(schemaFile)]_vars

C19_Witness ==
    /\ spc = "return" /\ schemaRet = "exec error"
    /\ Len(Statements(schemaFile)) = 2 /\ Len(SchemaExecs) = 2
    /\ schemaTx = "rolled back" /\ applied = << >>

(***************************************************************************)
(* C17.  In every interleaving of two concurrent ImportFixtures calls no   *)
(* two accesses to finishedParsedDirs, finishedTablseNames or insertMap    *)
(* by different goroutines, one of them a write, are in progress at the    *)
(* same time.                                                              *)
(***************************************************************************)
C17_CacheAccessesExcluded ==
    \A a, b \in Accesses :
        a.by # b.by /\ a.variable = b.variable => ~(a.write \/ b.write)

(***************************************************************************)
(* C21.  Under fair scheduling of the goroutines and of the caller, a      *)
(* call of pushInsertQueriesFromYmlToChannel returns, whatever the files   *)
(* hold (unreadable and malformed ones included); when it returns every    *)
(* goroutine it launched has called wg.Done(), the counter is zero and     *)
(* the mutex is free; wg.Done() is called once per goroutine.              *)
(***************************************************************************)
C21_ParsePhaseTerminates ==
    /\ (pc = "push") ~> (pc = "mark")
    /\ [](pc = "mark" =>
            /\ Launched = FileNames(files) /\ AllTasksDone
            /\ wg = 0 /\ mutex = Unlocked)
    /\ [](pc \in {"wait", "record", "mark"} =>
            wg = Cardinality({f \in Launched : task[f].pc # "done"}))
    /\ [][\A f \in YmlNames :
            task[f].pc = "done" /\ pc' # "idle" /\ pc # "idle" => task'[f].pc = "done"]_vars

C21_Witness ==
    /\ pc = "mark" /\ Cardinality(Launched) = 2 /\ AllTasksDone
    /\ \E f \in Launched : task[f].err
    /\ wg = 0

(***************************************************************************)
(* C22.  Under fair scheduling, getInsertQueriesFromYml returns for every  *)
(* listing (empty ones and ones with entries not ending in .yml            *)
(* included), stated for the listings whose capacity is their length;      *)
(* when it has returned every goroutine has returned, none is left at a    *)
(* send, and the statements received are one per record of the files of    *)
(* the listing.                                                            *)
(***************************************************************************)
Sum(counts) ==
    LET RECURSIVE Upto(_)
        Upto(n) == IF n = 0 THEN 0 ELSE counts[n] + Upto(n - 1)
    IN  Upto(Len(counts))

RecordsOfListing ==
    Sum([k \in DOMAIN files |->
            IF HasSuffix(files[k].name, ".yml")
            THEN Len(Unmarshal(OldReadFile(fixturesPathYml, files[k])).data)
            ELSE 0])

C22_CollectorReturns ==
    /\ (collector = "select" /\ filesCount = Len(files)) ~> (collector = "returned")
    /\ [](collector = "returned" =>
            /\ \A k \in DOMAIN sender : sender[k].pc = "returned"
            /\ Len(insertQueries) = RecordsOfListing)

====
